---- MODULE Spec2Model ----
(***************************************************************************)
(* A model of the notes page (NotesPage.tsx): the pending-operation guard, *)
(* the file-watcher handler, the tree-synchronisation effect, the          *)
(* debounced save and the emergency saves of the effect cleanups.          *)
(*                                                                         *)
(* A React render is taken to commit atomically with the state change      *)
(* that causes it: the cleanups of the effects whose dependencies changed  *)
(* run with the values of the previous render (their closures), then the   *)
(* effects run with the new values.  Awaited calls (services, sorting,     *)
(* initWorkSpace) are suspension points: each settles in a later step.     *)
(*                                                                         *)
(* The note tree is the set of the file nodes' external paths; undefined   *)
(* is None; a text is a sequence of characters.                            *)
(***************************************************************************)
EXTENDS Integers, Sequences, FiniteSets, Bags, TLC

None == "none"
Paths == {"p1", "p2"}
Texts == { <<>>, <<"a">>, <<" ", "a">>, <<"b">> }

\* user handlers in flight at once; watcher handlers awaiting initWorkSpace
MaxOps == 2
MaxSyncs == 2

VARIABLES
  activeFilePath,      \* redux: selectActiveFilePath
  currentContent,      \* useFileContent(activeFilePath).data, '' by default
  isContentLoading,    \* useFileContent(activeFilePath).isLoading
  notesTree,           \* the rendered tree (useLiveQuery result)
  db,                  \* the notes database the live query reads
  disk,                \* file contents, as window.api.file.write leaves them
  pendingOperations,   \* pendingOperationsRef.current
  isSyncingTree,       \* isSyncingTreeRef.current
  lastContentRef,      \* lastContentRef.current
  lastFilePathRef,     \* lastFilePathRef.current
  lastOrigin,          \* history: activeFilePath at the call that set lastContentRef
  timers,              \* pending timers of the debounced-save instances
  swContent,           \* currentContent in the closure of the file-switch effect
  swIsCur,             \* the file-switch effect's debouncedSave is the current one
  cleanupReg,          \* the watcher effect's last run returned its cleanup
  mounted,             \* the page is mounted
  sortType,            \* redux: selectSortType
  burst,               \* history: the typing burst of the current debounced function
  ops,                 \* bag of user handlers suspended at an await
  syncs,               \* bag of watcher handlers awaiting initWorkSpace
  last,                \* history: what the latest step did
  editorDoc,           \* what the rich editor's command chains inserted
  panel,               \* the quick panel: [visible, symbol, focus]
  inputText,           \* the input bar's textarea: its value,
  cursor,              \*   and its selection end
  elast,               \* history: what the latest key did
  writeFails           \* the file system rejects window.api.file.write

vars == << activeFilePath, currentContent, isContentLoading, notesTree, db, disk, pendingOperations,
           isSyncingTree, lastContentRef, lastFilePathRef, lastOrigin, timers,
           swContent, swIsCur, cleanupReg, mounted, sortType, burst, ops, syncs,
           last, editorDoc, panel, inputText, cursor, elast, writeFails >>

editorVars == << editorDoc, panel, inputText, cursor, elast >>

-----------------------------------------------------------------------------
(* Texts *)

IsSpace(c) == c = " "

RECURSIVE TrimStart(_)
TrimStart(s) ==
  IF s # <<>> /\ IsSpace(Head(s)) THEN TrimStart(Tail(s)) ELSE s

RECURSIVE TrimEnd(_)
TrimEnd(s) ==
  IF s # <<>> /\ IsSpace(s[Len(s)]) THEN TrimEnd(SubSeq(s, 1, Len(s) - 1)) ELSE s

\* String.prototype.trim
Trim(s) == TrimEnd(TrimStart(s))

\* a string is truthy unless it is empty
Truthy(s) == s # <<>>

-----------------------------------------------------------------------------
(* The pending-operation guard *)

addOperation(pend, operationId) == pend \cup {operationId}

removeOperation(pend, operationId) == pend \ {operationId}

hasPendingOperations(pend) == Cardinality(pend) > 0

IsStructuralEvent(eventType) ==
  eventType \in {"add", "addDir", "unlink", "unlinkDir"}

SkipEventAddOnly(eventType, pend) ==
  eventType \in {"add", "addDir"} /\ hasPendingOperations(pend)

SkipAnyEvent(eventType, pend) == hasPendingOperations(pend)

\* handleFileChange returns early, doing nothing but logging
SkipEvent(eventType, pend) ==
  IsStructuralEvent(eventType) /\ hasPendingOperations(pend)

-----------------------------------------------------------------------------
(* Saving.  R is the state at the moment of a call: the store, the query   *)
(* result, the tree, the refs, the pending timers, the disk, and as        *)
(* history the writes of the step and the typing burst:                    *)
(* [active, content, loading, tree, lastC, lastP, lastO, timers, swContent, *)
(*  swIsCur, cleanupReg, disk, burst, writes, sync, fsOk, saves].           *)
(* saves is history: every saveCurrentNote call of the step.               *)
(* A closure is passed as the values it captured.                          *)

\* debounce(..., 800)
DebounceWait == 800

\* the step of the clock, in ms
TickMs == 400

\* burst: [since |-> ms since the last call of the current debounced function,
\* capped at DebounceWait; wrote |-> a file write happened since that call]
NoBurst == [since |-> DebounceWait, wrote |-> FALSE]

\* sync: what the tree-synchronisation effect did in the step
NoSync == [ran |-> FALSE, cleared |-> FALSE, active |-> None]

View ==
  [ active |-> activeFilePath, content |-> currentContent,
    loading |-> isContentLoading, tree |-> notesTree,
    lastC |-> lastContentRef, lastP |-> lastFilePathRef, lastO |-> lastOrigin,
    timers |-> timers, swContent |-> swContent, swIsCur |-> swIsCur,
    cleanupReg |-> cleanupReg, disk |-> disk, burst |-> burst, writes |-> <<>>,
    sync |-> NoSync, fsOk |-> ~writeFails, saves |-> <<>> ]

TargetPathLive(R, filePath, closureActive) == R.active

\* const targetPath = filePath || activeFilePath
TargetPath(R, filePath, closureActive) ==
  IF filePath # None THEN filePath ELSE closureActive

\* a comparison without the trim
SkipSaveUntrimmed(target, content, closureContent) ==
  target = None \/ content = closureContent

\* if (!targetPath || content.trim() === currentContent.trim()) return
SkipSave(target, content, closureContent) ==
  target = None \/ Trim(content) = Trim(closureContent)

\* a save that invalidates whatever the write did and lets its error out
WriteOutcomeNoCatch(ok) ==
  [ok |-> ok, invalidated |-> TRUE, logged |-> FALSE, thrown |-> ~ok]

\* try { await write; invalidateFileContent(targetPath) } catch { logger.error }
WriteOutcome(ok) ==
  [ok |-> ok, invalidated |-> ok, logged |-> ~ok, thrown |-> FALSE]

\* saveCurrentNote as a render with (closureActive, closureContent) built it;
\* origin is history: the active path when the content was produced
SaveCurrentNote(R, content, filePath, origin, closureActive, closureContent, via) ==
  LET target == TargetPath(R, filePath, closureActive)
      call == [content |-> content, filePath |-> filePath, active |-> closureActive,
               cached |-> closureContent]
  IN IF SkipSave(target, content, closureContent)
     THEN [R EXCEPT !.saves = Append(@, [call |-> call, wrote |-> FALSE])]
     ELSE [R EXCEPT !.disk[target] = IF R.fsOk THEN content ELSE @,
                    !.burst = IF @.since < DebounceWait /\ R.fsOk
                              THEN [@ EXCEPT !.wrote = TRUE] ELSE @,
                    !.writes = Append(@, [path |-> target, content |-> content,
                                          origin |-> origin, via |-> via]),
                    !.saves = Append(@, [call |-> call, wrote |-> TRUE,
                                         path |-> target, content |-> content,
                                         outcome |-> WriteOutcome(R.fsOk)])]

\* the emergency save of the watcher effect's cleanup is attempted
WatcherEmergency(lastC, lastP, closureContent) ==
  Truthy(lastC) /\ lastC # closureContent /\ lastP # None

\* cleanup of the watcher effect; its closure is the previous render, whose
\* debouncedSave is the current one until this commit rebuilds it
WatcherCleanup(R, closureActive, closureContent) ==
  LET R1 == IF WatcherEmergency(R.lastC, R.lastP, closureContent)
            THEN SaveCurrentNote(R, R.lastC, R.lastP, R.lastO, closureActive,
                                 closureContent, "watcherCleanup")
            ELSE R
  IN [R1 EXCEPT !.timers = {t \in @ : ~t.cur}]

\* the emergency save of the file-switch cleanup is attempted
SwitchEmergency(lastC, lastP) == Truthy(lastC) /\ lastP # None

\* cleanup of the file-switch effect; its closure is the render in which
\* activeFilePath last changed
FileSwitchCleanup(R, closureActive, closureContent) ==
  LET R1 == IF SwitchEmergency(R.lastC, R.lastP)
            THEN SaveCurrentNote(R, R.lastC, R.lastP, R.lastO, closureActive,
                                 closureContent, "switchCleanup")
            ELSE R
  IN [R1 EXCEPT !.timers = {t \in @ : ~t.sw},
                !.lastC = <<>>, !.lastP = None, !.lastO = None]

\* one render commit, the store and the query already holding the new values:
\* the cleanups of the effects whose dependencies changed, then the effects;
\* saveCurrentNote and debouncedSave are rebuilt when activeFilePath or
\* currentContent changed
Commit(R, nActive, nContent, nTree, forced) ==
  LET activeChanged == nActive # R.active
      contentChanged == nContent # R.content
      lenChanged == Cardinality(nTree) # Cardinality(R.tree)
      watcherRerun == activeChanged \/ contentChanged \/ lenChanged \/ forced
      rebuilt == activeChanged \/ contentChanged
      R0 == [R EXCEPT !.active = nActive, !.content = nContent, !.tree = nTree]
      R1 == IF watcherRerun /\ R.cleanupReg
            THEN WatcherCleanup(R0, R.active, R.content)
            ELSE R0
      R2 == IF activeChanged
            THEN FileSwitchCleanup(R1, R.active, R.swContent)
            ELSE R1
  IN [R2 EXCEPT
        !.loading = IF activeChanged THEN nActive # None ELSE @,
        !.timers = IF rebuilt
                   THEN {[t EXCEPT !.cur = FALSE] : t \in R2.timers}
                   ELSE R2.timers,
        !.burst = IF rebuilt THEN NoBurst ELSE @,
        !.swContent = IF activeChanged THEN nContent ELSE @,
        !.swIsCur = IF activeChanged THEN TRUE
                    ELSE IF contentChanged THEN FALSE ELSE @,
        !.cleanupReg = IF watcherRerun THEN nTree # {} ELSE @ ]

\* activeNode: the node of the tree whose externalPath is activeFilePath
ActiveNodeFound(tree, active) == active \in tree

\* an effect that clears whenever the node is missing
ShouldClearUnguarded(tree, active, syncing, pend) ==
  tree # {} /\ active # None /\ ~ActiveNodeFound(tree, active)

\* if (notesTree.length === 0) return; shouldClearPath
ShouldClearPath(tree, active, syncing, pend) ==
  /\ tree # {}
  /\ active # None
  /\ ~ActiveNodeFound(tree, active)
  /\ ~syncing
  /\ ~hasPendingOperations(pend)

\* a commit followed by the tree-synchronisation effect, which runs when the
\* tree or the active path changed and reads the refs as the step leaves them
FullCommit(R, nActive, nContent, nTree, forced, treeEmitted, syncing, pend) ==
  LET R1 == Commit(R, nActive, nContent, nTree, forced)
      ran == treeEmitted \/ nActive # R.active
      clears == ran /\ ShouldClearPath(nTree, nActive, syncing, pend)
      R2 == IF clears THEN Commit(R1, None, <<>>, nTree, FALSE) ELSE R1
  IN [R2 EXCEPT !.sync = [ran |-> ran, cleared |-> clears, active |-> nActive]]

SetView(R) ==
  /\ activeFilePath' = R.active
  /\ currentContent' = R.content
  /\ isContentLoading' = R.loading
  /\ notesTree' = R.tree
  /\ lastContentRef' = R.lastC
  /\ lastFilePathRef' = R.lastP
  /\ lastOrigin' = R.lastO
  /\ timers' = R.timers
  /\ swContent' = R.swContent
  /\ swIsCur' = R.swIsCur
  /\ cleanupReg' = R.cleanupReg
  /\ disk' = R.disk
  /\ burst' = R.burst

viewVars == << activeFilePath, currentContent, isContentLoading, notesTree, lastContentRef,
               lastFilePathRef, lastOrigin, timers, swContent, swIsCur, cleanupReg,
               disk, burst >>

\* currentContent in the render in which the active path changed: no data
\* yet, so the default '' (the query resolves later, see queryUpdate)
LoadingContent == <<>>

\* dispatch(setActiveFilePath(p)) and the render it causes
Dispatch(p, syncing, pend) ==
  IF mounted
  THEN FullCommit(View, p,
                  IF p = activeFilePath THEN currentContent ELSE LoadingContent,
                  notesTree, FALSE, FALSE, syncing, pend)
  ELSE [View EXCEPT !.active = p]

\* history: the step changed the active path while the current debounced
\* function held an edit that differs from the cached content, and wrote
\* that edit to its file nowhere
LostEdit(R, teardown) ==
  \E t \in timers :
    /\ t.cur
    /\ t.path # None
    /\ t.content # currentContent
    /\ (teardown \/ R.active # activeFilePath)
    /\ \A i \in DOMAIN R.writes :
         ~(R.writes[i].path = t.path /\ R.writes[i].content = t.content)

Log(act, R) ==
  [ act |-> act, writes |-> R.writes, lost |-> LostEdit(R, act = "unmount"),
    sync |-> R.sync, saves |-> R.saves, diskBefore |-> disk ]

-----------------------------------------------------------------------------
(* User operations.  A handler suspended at an await is a record           *)
(* [kind, pc, a, b, capt, wrapped, id]: pc names the awaited call, a and b *)
(* are its arguments, capt is activeFilePath in the handler's closure,     *)
(* wrapped tells whether it runs inside withOperation(id, ...).            *)

Names == Paths
FolderNames == {"d1"}

OpId(kind, a, b) == IF kind = "renameNode" THEN <<kind, a, b>> ELSE <<kind, a>>

\* the handlers that call operationManager.withOperation
Wrapped(kind) == kind \in {"createFolder", "createNote", "renameNode"}

\* the handlers whose later steps read the activeFilePath of their closure
ReadsActive(kind) == kind \in {"renameNode", "deleteNode"}

Handler(kind, a, b) ==
  [ kind |-> kind, pc |-> "service", a |-> a, b |-> b,
    capt |-> IF ReadsActive(kind) THEN activeFilePath ELSE None,
    wrapped |-> Wrapped(kind),
    id |-> IF Wrapped(kind) THEN OpId(kind, a, b) ELSE <<>> ]

InFlight == BagToSet(ops)

\* a handler starts: everything up to its first awaited service call
StartHandler(kind, a, b) ==
  /\ mounted
  /\ BagCardinality(ops) < MaxOps
  /\ LET h == Handler(kind, a, b)
     IN /\ ops' = ops (+) SetToBag({h})
        /\ pendingOperations' = IF h.wrapped
                                THEN addOperation(pendingOperations, h.id)
                                ELSE pendingOperations
  /\ last' = [act |-> "start", writes |-> <<>>, lost |-> FALSE,
               wrapped |-> Wrapped(kind),
               idIn |-> OpId(kind, a, b) \in pendingOperations']
  /\ UNCHANGED << viewVars, db, isSyncingTree, mounted, sortType, syncs,
                  editorVars, writeFails >>

handleCreateFolder == \E name \in FolderNames : StartHandler("createFolder", name, None)

handleCreateNote == \E name \in Names : StartHandler("createNote", name, None)

\* node && node.name !== newName
handleRenameNode ==
  \E node \in db, newName \in Names :
    node # newName /\ StartHandler("renameNode", node, newName)

\* findNodeById(notesTree, nodeId); if (!nodeToDelete) return
handleDeleteNode == \E node \in notesTree : StartHandler("deleteNode", node, None)

handleMoveNode == \E node \in FolderNames : StartHandler("moveNode", node, None)

\* files.length > 0
handleUploadFiles == \E file \in Names : StartHandler("uploadFiles", file, None)

\* what the service call leaves in the database when it resolves with res
ServiceDb(h, res) ==
  CASE h.kind = "createNote" -> db \cup {h.a}
    [] h.kind = "renameNode" -> IF h.a \in db THEN (db \ {h.a}) \cup {h.b} ELSE db
    [] h.kind = "deleteNode" -> db \ {h.a}
    [] h.kind = "uploadFiles" -> IF res = "some" THEN db \cup {h.a} ELSE db
    [] OTHER -> db

\* what a resolved service call can return
ServiceResults(kind) ==
  CASE kind = "uploadFiles" -> {"none", "some"}
    [] kind = "moveNode" -> {"failed", "manual_reorder", "moved"}
    [] OTHER -> {"ok"}

\* the handler goes on to await sortAllLevels(sortType)
SortsAfter(kind, res) ==
  CASE kind = "uploadFiles" -> res = "some"
    [] kind = "moveNode" -> res = "moved"
    [] OTHER -> TRUE

\* withOperation's finally: the id leaves the set however the operation settled
SettleNoRemoveOnError(pend, h, ok) ==
  IF h.wrapped /\ ok THEN removeOperation(pend, h.id) ELSE pend

SettlePending(pend, h, ok) ==
  IF h.wrapped THEN removeOperation(pend, h.id) ELSE pend

\* the path the handler dispatches once its calls resolved; Keep: no dispatch
Keep == "keep"

\* what the handler sees of withOperation's promise: op's value or op's error
WithOperationResult(ok) == IF ok THEN "value" ELSE "error"

Done(h, ok, R, pend, to) ==
  [ act |-> "opDone", writes |-> R.writes, lost |-> LostEdit(R, FALSE),
    sync |-> R.sync, kind |-> h.kind, set |-> to,
    wrapped |-> h.wrapped,
    idIn |-> h.id \in pend,
    op |-> IF ok THEN "resolved" ELSE "rejected", saw |-> WithOperationResult(ok) ]

\* the awaited service call settles
ServiceSettle ==
  \E h \in InFlight, ok \in BOOLEAN :
    /\ h.pc = "service"
    /\ \E res \in ServiceResults(h.kind) :
         IF ok /\ SortsAfter(h.kind, res)
         THEN /\ db' = ServiceDb(h, res)
              /\ ops' = (ops (-) SetToBag({h})) (+) SetToBag({[h EXCEPT !.pc = "sort"]})
              /\ last' = [act |-> "step", writes |-> <<>>, lost |-> FALSE]
              /\ UNCHANGED pendingOperations
         ELSE /\ db' = IF ok THEN ServiceDb(h, res) ELSE db
              /\ ops' = ops (-) SetToBag({h})
              /\ pendingOperations' = SettlePending(pendingOperations, h, ok)
              /\ last' = Done(h, ok, View, pendingOperations', Keep)
    /\ UNCHANGED << viewVars, isSyncingTree, mounted, sortType, syncs,
                    editorVars, writeFails >>

AfterSort(h) ==
  CASE h.kind = "createNote" -> h.a
    [] h.kind = "renameNode" -> IF h.capt = h.a THEN h.b ELSE Keep
    [] h.kind = "deleteNode" -> IF h.capt # None /\ h.a = h.capt THEN None ELSE Keep
    [] OTHER -> Keep

\* the awaited sortAllLevels settles, and the handler runs to its end
SortSettle ==
  \E h \in InFlight, ok \in BOOLEAN :
    /\ h.pc = "sort"
    /\ ops' = ops (-) SetToBag({h})
    /\ pendingOperations' = SettlePending(pendingOperations, h, ok)
    /\ LET to == IF ok THEN AfterSort(h) ELSE Keep
       IN IF to = Keep
          THEN /\ last' = Done(h, ok, View, pendingOperations', Keep)
               /\ UNCHANGED viewVars
          ELSE LET R == Dispatch(to, isSyncingTree, pendingOperations')
               IN SetView(R) /\ last' = Done(h, ok, R, pendingOperations', to)
    /\ UNCHANGED << db, isSyncingTree, mounted, sortType, syncs,
                    editorVars, writeFails >>

-----------------------------------------------------------------------------
(* The file watcher.  handleFileChange is registered while notesPath is    *)
(* set and the tree is not empty; its closure holds the activeFilePath of  *)
(* the render that registered it, which the effect's dependencies keep     *)
(* current.                                                                *)

EventTypes == {"add", "addDir", "unlink", "unlinkDir", "change", "rename"}

\* a change branch that resyncs for the active file too
BranchChangeResyncs(eventType, filePath, active, pend) ==
  IF SkipEvent(eventType, pend) THEN "skipped"
  ELSE IF eventType = "change" THEN "changeSync"
       ELSE IF IsStructuralEvent(eventType) THEN "resync" ELSE "logged"

\* what handleFileChange does with an event, before any await:
\* "skipped", "resync" (structural branch), "changeSync" (initWorkSpace for a
\* change of another file), "noop" (change of the active file), "logged"
Branch(eventType, filePath, active, pend) ==
  IF SkipEvent(eventType, pend) THEN "skipped"
  ELSE IF eventType = "change"
       THEN (IF active = filePath THEN "noop" ELSE "changeSync")
       ELSE IF IsStructuralEvent(eventType) THEN "resync" ELSE "logged"

\* a structural branch that clears on the unlink of any path
ClearsOnAnyUnlink(eventType, filePath, active) == eventType \in {"unlink", "unlinkDir"}

\* the try block of the change branch (227-240) holds only comments: nothing
\* in it throws, and the catch with invalidateFileContent(filePath) never runs
ChangeReadThrows == FALSE

\* the structural branch clears the selection
ClearsSelection(eventType, filePath, active) ==
  eventType \in {"unlink", "unlinkDir"} /\ active = filePath

EventLog(eventType, filePath, branch, R, syncAfter) ==
  [ act |-> "event", writes |-> R.writes, lost |-> LostEdit(R, FALSE),
    sync |-> R.sync, inits |-> BagCardinality(syncs') - BagCardinality(syncs),
    type |-> eventType, path |-> filePath,
    pendBefore |-> hasPendingOperations(pendingOperations),
    pendSet |-> pendingOperations,
    invalidated |-> branch = "noop" /\ ChangeReadThrows,
    mutating |-> InFlight # {},
    activeBefore |-> activeFilePath, activeAfter |-> R.active,
    syncBefore |-> isSyncingTree, syncAfter |-> syncAfter,
    init |-> branch \in {"resync", "changeSync"}, outcome |-> branch ]

\* the watcher delivers an event while fewer than maxSyncs initWorkSpace calls
\* are awaited
FileChange(maxSyncs) ==
  \E eventType \in EventTypes, filePath \in Paths :
    LET branch == Branch(eventType, filePath, activeFilePath, pendingOperations)
    IN /\ mounted
       /\ notesTree # {}
       /\ branch \in {"resync", "changeSync"} => BagCardinality(syncs) < maxSyncs
       /\ CASE branch = "resync" ->
                 /\ isSyncingTree' = TRUE
                 /\ syncs' = syncs (+) SetToBag({"resync"})
                 /\ LET R == IF ClearsSelection(eventType, filePath, activeFilePath)
                             THEN Dispatch(None, TRUE, pendingOperations)
                             ELSE View
                    IN SetView(R) /\ last' = EventLog(eventType, filePath, branch, R, TRUE)
            [] branch = "changeSync" ->
                 /\ syncs' = syncs (+) SetToBag({"changeSync"})
                 /\ last' = EventLog(eventType, filePath, branch, View, isSyncingTree)
                 /\ UNCHANGED << viewVars, isSyncingTree >>
            [] OTHER ->
                 /\ UNCHANGED << viewVars, isSyncingTree, syncs >>
                 /\ last' = EventLog(eventType, filePath, branch, View, isSyncingTree)
       /\ UNCHANGED << db, pendingOperations, mounted, sortType, ops,
                       editorVars, writeFails >>

\* events that may arrive while earlier resyncs are still awaited
handleFileChange == FileChange(MaxSyncs)

\* events that arrive one resync at a time
handleFileChangeAlone == FileChange(1)

\* a structural branch without the finally
SyncFlagAfterNoFinally(kind, ok, flag) == IF kind = "resync" /\ ok THEN FALSE ELSE flag

\* isSyncingTreeRef after initWorkSpace settled: the structural branch's finally
SyncFlagAfter(kind, ok, flag) == IF kind = "resync" THEN FALSE ELSE flag

\* the awaited initWorkSpace settles: resolved, the database holds the files
\* found on disk; the structural branch's finally resets the flag
initWorkSpaceSettle ==
  \E kind \in BagToSet(syncs), ok \in BOOLEAN, found \in SUBSET Paths :
    /\ syncs' = syncs (-) SetToBag({kind})
    /\ db' = IF ok THEN found ELSE db
    /\ isSyncingTree' = SyncFlagAfter(kind, ok, isSyncingTree)
    /\ last' = [act |-> "initDone", writes |-> <<>>, lost |-> FALSE,
                kind |-> kind, ok |-> ok]
    /\ UNCHANGED << viewVars, pendingOperations, mounted, sortType, ops,
                    editorVars, writeFails >>

\* useLiveQuery delivers the database's tree; the render runs the effects
liveQueryRefresh ==
  /\ mounted
  /\ notesTree # db
  /\ LET R == FullCommit(View, activeFilePath, currentContent, db, FALSE, TRUE,
                         isSyncingTree, pendingOperations)
     IN SetView(R) /\ last' = Log("tree", R)
  /\ UNCHANGED << db, pendingOperations, isSyncingTree, mounted, sortType, ops, syncs,
                  editorVars, writeFails >>

\* a file node of the sidebar is selected
handleSelectNode ==
  \E node \in notesTree :
    /\ mounted
    /\ node # activeFilePath
    /\ LET R == Dispatch(node, isSyncingTree, pendingOperations)
       IN SetView(R) /\ last' = Log("select", R)
    /\ UNCHANGED << db, pendingOperations, isSyncingTree, mounted, sortType, ops, syncs,
                    editorVars, writeFails >>

-----------------------------------------------------------------------------
(* The editor, the debounced save and the clock *)

Max(a, b) == IF a >= b THEN a ELSE b
Min(a, b) == IF a <= b THEN a ELSE b

\* the pending invocation debouncedSave(newMarkdown, activeFilePath) leaves on
\* the current debounced function, whose saveCurrentNote is this render's
Timer(newMarkdown) ==
  [ content |-> newMarkdown, path |-> activeFilePath, origin |-> activeFilePath,
    remaining |-> DebounceWait, capActive |-> activeFilePath,
    capContent |-> currentContent, cur |-> TRUE, sw |-> swIsCur ]

\* a call of a debounced function replaces its pending invocation
Debounce(ts, t) == {u \in ts : ~u.cur} \cup {t}

\* the editor reports new markdown for the note it shows
handleMarkdownChange ==
  \E newMarkdown \in Texts :
    /\ mounted
    /\ activeFilePath # None
    /\ ActiveNodeFound(notesTree, activeFilePath)
    /\ ~isContentLoading
    /\ lastContentRef' = newMarkdown
    /\ lastFilePathRef' = activeFilePath
    /\ lastOrigin' = activeFilePath
    /\ timers' = Debounce(timers, Timer(newMarkdown))
    /\ burst' = [since |-> 0, wrote |-> FALSE]
    /\ last' = [act |-> "edit", writes |-> <<>>, lost |-> FALSE,
                burstWrite |-> burst.since < DebounceWait /\ burst.wrote]
    /\ UNCHANGED << activeFilePath, currentContent, isContentLoading, notesTree, db,
                    disk, pendingOperations, isSyncingTree, swContent, swIsCur,
                    cleanupReg, mounted, sortType, ops, syncs,
                    editorVars, writeFails >>

\* TickMs pass; a timer that is due fires before more time passes
Tick ==
  /\ timers # {} \/ burst.since < DebounceWait
  /\ \A t \in timers : t.remaining > 0
  /\ timers' = {[t EXCEPT !.remaining = Max(0, @ - TickMs)] : t \in timers}
  /\ burst' = IF burst.since + TickMs >= DebounceWait
              THEN NoBurst
              ELSE [burst EXCEPT !.since = @ + TickMs]
  /\ last' = [act |-> "step", writes |-> <<>>, lost |-> FALSE]
  /\ UNCHANGED << activeFilePath, currentContent, isContentLoading, notesTree, db,
                  disk, pendingOperations, isSyncingTree, lastContentRef, lastFilePathRef,
                  lastOrigin, swContent, swIsCur, cleanupReg, mounted, sortType, ops,
                  syncs,
                  editorVars, writeFails >>

\* a debounced function's timer fires: saveCurrentNote(content, filePath)
timerFire ==
  \E t \in timers :
    /\ t.remaining = 0
    /\ LET R == SaveCurrentNote([View EXCEPT !.timers = timers \ {t}], t.content,
                                t.path, t.origin, t.capActive, t.capContent,
                                "debounce")
       IN SetView(R) /\ last' = [act |-> "fire", writes |-> R.writes, lost |-> FALSE,
                                 content |-> t.content, path |-> t.path,
                                 saves |-> R.saves, diskBefore |-> disk]
    /\ UNCHANGED << db, pendingOperations, isSyncingTree, mounted, sortType, ops,
                    syncs,
                    editorVars, writeFails >>

\* the file-content query of the active file resolves with what is on disk
queryUpdate ==
  /\ mounted
  /\ activeFilePath # None
  /\ isContentLoading \/ currentContent # disk[activeFilePath]
  /\ LET R0 == Commit(View, activeFilePath, disk[activeFilePath], notesTree, FALSE)
         R == [R0 EXCEPT !.loading = FALSE]
     IN SetView(R) /\ last' = Log("query", R)
  /\ UNCHANGED << db, pendingOperations, isSyncingTree, mounted, sortType, ops, syncs,
                  editorVars, writeFails >>

SortTypes == {"sort_a", "sort_z"}

\* dispatch(setSortType(newSortType)): the watcher effect depends on sortType
handleSortNodes ==
  \E newSortType \in SortTypes :
    /\ mounted
    /\ newSortType # sortType
    /\ sortType' = newSortType
    /\ LET R == Commit(View, activeFilePath, currentContent, notesTree, TRUE)
       IN SetView(R) /\ last' = Log("sort", R)
    /\ UNCHANGED << db, pendingOperations, isSyncingTree, mounted, ops, syncs,
                    editorVars, writeFails >>

\* the page is torn down: every effect's cleanup runs
unmount ==
  /\ mounted
  /\ mounted' = FALSE
  /\ LET R1 == IF cleanupReg
               THEN WatcherCleanup(View, activeFilePath, currentContent)
               ELSE View
         R2 == FileSwitchCleanup(R1, activeFilePath, swContent)
         R == [R2 EXCEPT !.cleanupReg = FALSE]
     IN SetView(R) /\ last' = Log("unmount", R)
  /\ UNCHANGED << db, pendingOperations, isSyncingTree, sortType, ops, syncs,
                  editorVars, writeFails >>

\* the file system starts or stops rejecting writes
writeFault ==
  /\ mounted
  /\ writeFails' = ~writeFails
  /\ last' = [act |-> "step", writes |-> <<>>, lost |-> FALSE]
  /\ UNCHANGED << viewVars, db, pendingOperations, isSyncingTree, mounted, sortType,
                  ops, syncs, editorVars >>

-----------------------------------------------------------------------------
(* The rich editor's command suggestion and the quick panel, as their      *)
(* tests (commandSuggestion.test.ts) describe them.                        *)

notesVars == << viewVars, db, pendingOperations, isSyncingTree, mounted, sortType,
                ops, syncs, last, writeFails >>

\* command chains one run of the model may insert
MaxDoc == 2

Keys == {"Enter", "Escape", "ArrowDown", "Tab", "a"}

IsEnter(key, shiftKey) == key = "Enter"

IsPlainEnter(key, shiftKey) == key = "Enter" /\ ~shiftKey

\* the key event commandSuggestion.onKeyDown handles
IsShiftEnter(key, shiftKey) == key = "Enter" /\ shiftKey

\* commandSuggestion.onKeyDown({event, editor}): what it returns, how often it
\* calls event.preventDefault and editor.chain, and what the chain inserts
OnKeyDown(key, shiftKey) ==
  IF IsShiftEnter(key, shiftKey)
  THEN [handled |-> TRUE, preventDefault |-> 1, chain |-> 1, run |-> 1,
        inserted |-> <<"\n">>]
  ELSE [handled |-> FALSE, preventDefault |-> 0, chain |-> 0, run |-> 0,
        inserted |-> <<>>]

onKeyDown ==
  \E key \in Keys, shiftKey \in BOOLEAN :
    LET r == OnKeyDown(key, shiftKey)
    IN /\ Len(editorDoc) + Len(r.inserted) <= MaxDoc
       /\ editorDoc' = editorDoc \o r.inserted
       /\ elast' = [act |-> "onKeyDown", key |-> key, shiftKey |-> shiftKey,
                    result |-> r, docBefore |-> editorDoc]
       /\ UNCHANGED << notesVars, panel, inputText, cursor >>

\* the symbols the panel is opened with
PanelSymbols ==
  {"@", "/", "thinking", "?", "#", "quick-phrases", "mcp", "mcp-prompt",
   "mcp-resource"}

\* createList(3)
ListLen == 3

\* textarea values and cursors: a text is a sequence of tokens, a symbol one token
PanelInputs ==
  { [text |-> <<"t", "@", "e">>, cursor |-> 3],
    [text |-> <<"h", " ", "/", "s">>, cursor |-> 4],
    [text |-> <<"t", "@", "e", " ", "/", "s">>, cursor |-> 6],
    [text |-> <<"h", " ", "/", "s", " ", "t", "@", "e">>, cursor |-> 8],
    [text |-> <<"t", "@", "e", " ", "/", "thinking">>, cursor |-> 6],
    [text |-> <<"t", "@", "e", " ", "#", "k">>, cursor |-> 6],
    [text |-> <<"t", "@", "e", " ", "/", "s", "x">>, cursor |-> 6],
    [text |-> <<"h", " ", "/", "s", " ", "t", "@", "e", "x">>, cursor |-> 8] }

\* the symbols whose search text is deleted when the panel closes
ClearsAnySymbol(symbol) == TRUE

ClearsSearchText(symbol) == symbol \in {"@", "/"}

\* the first occurrence of '@' or '/' before the cursor, 0 when there is none
FirstTriggerIndex(text, pos, symbol) ==
  LET hits == {i \in 1..Min(pos, Len(text)) : text[i] \in {"@", "/"}}
  IN IF hits = {} THEN 0 ELSE CHOOSE i \in hits : \A j \in hits : i <= j

\* the last occurrence of the symbol before the cursor, 0 when there is none
LastIndexOf(text, pos, symbol) ==
  LET hits == {i \in 1..Min(pos, Len(text)) : text[i] = symbol}
  IN IF hits = {} THEN 0 ELSE CHOOSE i \in hits : \A j \in hits : j <= i

\* clearSearchText: the setInputText calls it makes, the segment from the
\* symbol to the cursor removed
ClearSearchText(text, pos, symbol) ==
  LET at == LastIndexOf(text, pos, symbol)
  IN IF ~ClearsSearchText(symbol) \/ at = 0
     THEN <<>>
     ELSE << SubSeq(text, 1, at - 1) \o SubSeq(text, pos + 1, Len(text)) >>

\* the user types into the input bar while the panel is closed
typeInput ==
  \E in \in PanelInputs :
    /\ ~panel.visible
    /\ inputText' = in.text
    /\ cursor' = in.cursor
    /\ elast' = [act |-> "type"]
    /\ UNCHANGED << notesVars, editorDoc, panel >>

\* render(<QuickPanelView setInputText={...} />): the panel's element enters
\* the document, hidden
renderPanel ==
  /\ ~panel.inDocument
  /\ panel' = [panel EXCEPT !.inDocument = TRUE]
  /\ elast' = [act |-> "render"]
  /\ UNCHANGED << notesVars, editorDoc, inputText, cursor >>

\* quickPanel.open({title, list, symbol, pageSize})
openPanel ==
  \E symbol \in PanelSymbols :
    /\ panel.inDocument
    /\ ~panel.visible
    /\ panel' = [panel EXCEPT !.visible = TRUE, !.symbol = symbol, !.focus = 0]
    /\ elast' = [act |-> "open"]
    /\ UNCHANGED << notesVars, editorDoc, inputText, cursor >>

\* ArrowDown moves the focus to the next item of the list
panelArrowDown ==
  /\ panel.visible
  /\ panel' = [panel EXCEPT !.focus = (@ % ListLen) + 1]
  /\ elast' = [act |-> "arrow"]
  /\ UNCHANGED << notesVars, editorDoc, inputText, cursor >>

\* a close that renders the panel only while it is visible
HiddenAndUnmounted(p) == [p EXCEPT !.visible = FALSE, !.focus = 0, !.inDocument = FALSE]

\* the panel's state after a close: hidden, its element still in the document
Hidden(p) == [p EXCEPT !.visible = FALSE, !.focus = 0]

\* the panel closes and clears the search text
ClosePanel(act) ==
  LET calls == ClearSearchText(inputText, cursor, panel.symbol)
  IN /\ panel' = Hidden(panel)
     /\ inputText' = IF calls = <<>> THEN inputText ELSE calls[1]
     /\ cursor' = IF calls = <<>>
                  THEN cursor
                  ELSE LastIndexOf(inputText, cursor, panel.symbol) - 1
     /\ elast' = [act |-> act, symbol |-> panel.symbol, setInputText |-> calls,
                  textBefore |-> inputText, cursorBefore |-> cursor,
                  focusBefore |-> panel.focus]
     /\ UNCHANGED << notesVars, editorDoc >>

\* Enter selects an item: the focused one, or as in the tests the one the
\* list offers when no arrow key was pressed
panelEnter == panel.visible /\ ClosePanel("select")

\* an Escape that only hides the panel
panelEscapeKeepsText ==
  /\ panel.visible
  /\ panel' = Hidden(panel)
  /\ elast' = [act |-> "escape", symbol |-> panel.symbol, setInputText |-> <<>>,
               textBefore |-> inputText, cursorBefore |-> cursor,
               focusBefore |-> panel.focus]
  /\ UNCHANGED << notesVars, editorDoc, inputText, cursor >>

\* Escape dismisses the panel
panelEscape == panel.visible /\ ClosePanel("escape")

-----------------------------------------------------------------------------

\* the page after its first render: the live query has not answered yet, the
\* active path is the one the store kept, nothing was typed
Init ==
  /\ activeFilePath \in Paths \cup {None}
  /\ currentContent = <<>>
  /\ isContentLoading = (activeFilePath # None)
  /\ notesTree = {}
  /\ db \in SUBSET Paths
  /\ disk = [p \in Paths |-> <<"a">>]
  /\ pendingOperations = {}
  /\ isSyncingTree = FALSE
  /\ lastContentRef = <<>>
  /\ lastFilePathRef = None
  /\ lastOrigin = None
  /\ timers = {}
  /\ swContent = <<>>
  /\ swIsCur = TRUE
  /\ cleanupReg = FALSE
  /\ mounted = TRUE
  /\ sortType = "sort_a"
  /\ burst = NoBurst
  /\ ops = EmptyBag
  /\ syncs = EmptyBag
  /\ last = [act |-> "init", writes |-> <<>>, lost |-> FALSE]
  /\ editorDoc = <<>>
  /\ panel = [inDocument |-> FALSE, visible |-> FALSE, symbol |-> "", focus |-> 0]
  /\ inputText = <<>>
  /\ cursor = 0
  /\ elast = [act |-> "init"]
  /\ writeFails = FALSE

NextGuard ==
  \/ handleCreateFolder
  \/ handleCreateNote
  \/ handleRenameNode
  \/ handleDeleteNode
  \/ handleMoveNode
  \/ handleUploadFiles
  \/ ServiceSettle
  \/ SortSettle
  \/ liveQueryRefresh

\* the user's operations on the tree, with a silent watcher and an idle editor
SpecGuard == Init /\ [][NextGuard]_vars

NextWatch ==
  \/ handleCreateNote
  \/ handleDeleteNode
  \/ ServiceSettle
  \/ SortSettle
  \/ handleFileChangeAlone
  \/ initWorkSpaceSettle
  \/ liveQueryRefresh
  \/ handleSelectNode

\* the watcher's events against note creation and deletion, with an idle editor
SpecWatch == Init /\ [][NextWatch]_vars

NextSync ==
  \/ handleFileChange
  \/ initWorkSpaceSettle
  \/ liveQueryRefresh
  \/ handleSelectNode

\* the watcher alone: events whose resyncs may overlap
SpecSync == Init /\ [][NextSync]_vars

NextSave ==
  \/ handleMarkdownChange
  \/ Tick
  \/ timerFire
  \/ queryUpdate
  \/ handleSortNodes
  \/ unmount
  \/ handleSelectNode
  \/ liveQueryRefresh
  \/ writeFault

\* the editor: typing, the debounced save, file switches and teardown
SpecSave == Init /\ [][NextSave]_vars

NextEditor ==
  \/ onKeyDown
  \/ typeInput
  \/ renderPanel
  \/ openPanel
  \/ panelArrowDown
  \/ panelEnter
  \/ panelEscape

\* the chat input: the command suggestion's keys and the quick panel
SpecEditor == Init /\ [][NextEditor]_vars

-----------------------------------------------------------------------------
(* Properties *)

Structural == {"add", "addDir", "unlink", "unlinkDir"}

\* C1: a structural event (add, addDir, unlink, unlinkDir) that arrives while
\* the pending set is not empty is dropped: no initWorkSpace, activeFilePath
\* and isSyncingTree as they were, also when the path is the active file.
C1_StructuralEventDropped ==
  (last.act = "event" /\ last.type \in Structural /\ last.pendBefore)
    => /\ last.outcome = "skipped"
       /\ ~last.init
       /\ last.activeAfter = last.activeBefore
       /\ last.syncAfter = last.syncBefore

C1_Witness ==
  /\ last.act = "event"
  /\ last.type = "unlink"
  /\ last.pendBefore
  /\ last.path = last.activeBefore
  /\ last.outcome = "skipped"
  /\ activeFilePath = last.path

\* C2: a structural event that arrives while any user mutation of the tree
\* (create folder, create note, rename, delete, move, upload) is between the
\* start of its service call and the end of its sortAllLevels is skipped.
C2_MutationsSuppressEvents ==
  (last.act = "event" /\ last.type \in Structural /\ last.mutating)
    => last.outcome = "skipped"

\* C6: a change event on a file other than the active one calls initWorkSpace
\* whether or not operations are pending.
C6_ChangeNotBlocked ==
  (last.act = "event" /\ last.type = "change" /\ last.path # last.activeBefore)
    => (last.init /\ last.outcome = "changeSync")

C6_Witness ==
  /\ last.act = "event"
  /\ last.type = "change"
  /\ last.path # last.activeBefore
  /\ last.pendBefore
  /\ last.init

\* C7: withOperation adds the id before the operation starts and removes it
\* when the operation settles, resolved or rejected, handing on its value or
\* its error; with no withOperation call in flight the pending set is empty.
C7_WithOperationSettles ==
  /\ (\A h \in InFlight : ~h.wrapped)
       => (pendingOperations = {} /\ ~hasPendingOperations(pendingOperations))
  /\ (last.act = "start" /\ last.wrapped) => last.idIn
  /\ (last.act = "opDone" /\ last.wrapped)
       => /\ ~last.idIn
          /\ last.saw = (IF last.op = "resolved" THEN "value" ELSE "error")

C7_Witness ==
  /\ last.act = "opDone"
  /\ last.wrapped
  /\ last.op = "rejected"
  /\ last.saw = "error"
  /\ InFlight = {}
  /\ pendingOperations = {}


\* C3: in a burst of handleMarkdownChange calls on one debounced function,
\* each less than 800 ms after the previous one, no file is written between
\* two calls of the burst.
C3_NoWriteDuringBurst == last.act = "edit" => ~last.burstWrite

\* C4: an edit that differs from the cached content and still waits for the
\* debounce is written to its file when the active path changes or the page
\* is torn down.
C4_UnsavedEditSaved == ~last.lost

\* C5: every write goes to the path that was active when handleMarkdownChange
\* supplied the written content.
C5_WriteTargetsOrigin ==
  \A i \in DOMAIN last.writes : last.writes[i].path = last.writes[i].origin

C5_Witness ==
  /\ last.act = "select"
  /\ activeFilePath # None
  /\ \E i \in DOMAIN last.writes :
       /\ last.writes[i].via = "switchCleanup"
       /\ last.writes[i].path # activeFilePath


\* C8: onKeyDown with key 'Enter' and shiftKey true returns true, calls
\* event.preventDefault once, and runs chain().focus().insertContent('\n').run()
\* once.
C8_ShiftEnterInsertsNewline ==
  (elast.act = "onKeyDown" /\ elast.key = "Enter" /\ elast.shiftKey)
    => /\ elast.result.handled
       /\ elast.result.preventDefault = 1
       /\ elast.result.chain = 1
       /\ elast.result.run = 1
       /\ editorDoc = Append(elast.docBefore, "\n")

C8_Witness ==
  /\ elast.act = "onKeyDown"
  /\ elast.key = "Enter"
  /\ elast.shiftKey
  /\ editorDoc = <<"\n">>

\* C9: onKeyDown ignores every key event that is not Shift+Enter: it returns
\* false, calls neither event.preventDefault nor editor.chain, and leaves the
\* editor as it was.
C9_OtherKeysIgnored ==
  (elast.act = "onKeyDown" /\ ~(elast.key = "Enter" /\ elast.shiftKey))
    => /\ ~elast.result.handled
       /\ elast.result.preventDefault = 0
       /\ elast.result.chain = 0
       /\ editorDoc = elast.docBefore

C9_Witness ==
  /\ elast.act = "onKeyDown"
  /\ elast.key = "Enter"
  /\ ~elast.shiftKey
  /\ ~elast.result.handled

\* C10: with the panel open on a symbol other than '@' and '/', selecting an
\* item with Enter never calls setInputText and leaves the input text as is.
C10_OtherSymbolsKeepText ==
  (elast.act = "select" /\ elast.symbol \notin {"@", "/"})
    => (elast.setInputText = <<>> /\ inputText = elast.textBefore)

C10_Witness ==
  /\ elast.act = "select"
  /\ elast.symbol = "thinking"
  /\ elast.textBefore = <<"t", "@", "e", " ", "/", "thinking">>
  /\ inputText = elast.textBefore

\* the tokens of the text that lie outside the positions from..to
Outside(text, from, to) == SubSeq(text, 1, from - 1) \o SubSeq(text, to + 1, Len(text))

\* the position of the panel's symbol nearest before the cursor
SymbolAt(text, pos, symbol) ==
  IF \E i \in 1..pos : text[i] = symbol
  THEN CHOOSE i \in 1..pos :
         text[i] = symbol /\ \A j \in (i + 1)..pos : text[j] # symbol
  ELSE 0

C13_PanelStaysMounted ==
  elast.act \in {"select", "escape"} => (panel.inDocument /\ ~panel.visible)

C13_Witness ==
  /\ elast.act = "select"
  /\ elast.symbol = "@"
  /\ panel.inDocument
  /\ ~panel.visible

\* C14: hasPendingOperations() is true whenever at least one withOperation
\* call is between its add and its remove, for every interleaving of
\* overlapping operations, two operations with the same id included.
C14_PendingWhileInFlight ==
  (\E h \in InFlight : h.wrapped) => hasPendingOperations(pendingOperations)

\* the steps whose render can run the tree-synchronisation effect
Renders == {"tree", "select", "opDone", "event"}

C16_NewNoteStaysSelected ==
  (/\ last.act = "opDone"
   /\ last.kind \in {"createNote", "renameNode"}
   /\ last.set \in db)
    => (~last.sync.cleared /\ activeFilePath = last.set)

\* a resync of the structural branch is awaited
ResyncInProgress == "resync" \in BagToSet(syncs)

\* C17: isSyncingTree is true whenever a resync for a structural event is in
\* progress, two overlapping resyncs included, so that the tree-synchronisation
\* effect clears activeFilePath in the middle of none.
C17_FlagCoversResyncs ==
  /\ ResyncInProgress => isSyncingTree
  /\ (last.act \in Renders /\ last.sync.cleared) => ~ResyncInProgress

\* C18: a structural event with nothing pending sets isSyncingTree before it
\* calls initWorkSpace; the flag is reset when initWorkSpace settles, resolved
\* or thrown, and is false once every handleFileChange has finished.
C18_FlagResetOnSettle ==
  /\ (last.act = "event" /\ last.outcome = "resync")
       => (last.syncAfter /\ isSyncingTree /\ ResyncInProgress)
  /\ (last.act = "initDone" /\ last.kind = "resync") => ~isSyncingTree
  /\ syncs = EmptyBag => ~isSyncingTree

C18_Witness ==
  /\ last.act = "initDone"
  /\ last.kind = "resync"
  /\ ~last.ok
  /\ syncs = EmptyBag
  /\ ~isSyncingTree

\* C19: with nothing pending, an unlink or unlinkDir of the active file sets
\* activeFilePath to undefined; an add, an addDir or an unlink of another path
\* leaves it as it was; every structural event calls initWorkSpace once.
C19_UnlinkOfActiveClears ==
  (last.act = "event" /\ last.type \in Structural /\ ~last.pendBefore)
    => /\ last.inits = 1
       /\ last.outcome = "resync"
       /\ activeFilePath =
            IF last.type \in {"unlink", "unlinkDir"} /\ last.path = last.activeBefore
            THEN None
            ELSE last.activeBefore

C19_Witness ==
  /\ last.act = "event"
  /\ last.type = "unlinkDir"
  /\ last.path = last.activeBefore
  /\ activeFilePath = None
  /\ last.inits = 1

\* C20: a change event for the active file changes nothing (no initWorkSpace,
\* no invalidateFileContent, activeFilePath, pending set and isSyncingTree as
\* they were); a change event for another file calls initWorkSpace once and
\* leaves isSyncingTree alone; an event of any other type is only logged.
C20_ChangeBranchFrame ==
  last.act = "event" =>
    /\ (last.type = "change" /\ last.path = last.activeBefore)
         => /\ last.inits = 0
            /\ ~last.invalidated
            /\ activeFilePath = last.activeBefore
            /\ pendingOperations = last.pendSet
            /\ isSyncingTree = last.syncBefore
    /\ (last.type = "change" /\ last.path # last.activeBefore)
         => (last.inits = 1 /\ isSyncingTree = last.syncBefore)
    /\ last.type \notin (Structural \cup {"change"})
         => /\ last.outcome = "logged"
            /\ last.inits = 0
            /\ activeFilePath = last.activeBefore
            /\ pendingOperations = last.pendSet
            /\ isSyncingTree = last.syncBefore

C20_Witness ==
  /\ last.act = "event"
  /\ last.type = "change"
  /\ last.path = last.activeBefore
  /\ last.pendBefore
  /\ last.inits = 0
  /\ activeFilePath = last.path

\* the steps that can call saveCurrentNote
Saving == {"fire", "tree", "select", "query", "sort", "unmount"}

\* C21: saveCurrentNote(content, filePath) writes nothing when the target path
\* (filePath, else activeFilePath) is empty or the content equals the cached
\* content after trimming; otherwise it writes the content to the target and
\* invalidates that path's cache only after the write succeeded; a failed
\* write is logged, not propagated, and invalidates nothing.
C21_SaveSkipsOrWrites ==
  last.act \in Saving =>
    \A i \in DOMAIN last.saves :
      LET s == last.saves[i]
          target == IF s.call.filePath # None THEN s.call.filePath ELSE s.call.active
      IN IF target = None \/ Trim(s.call.content) = Trim(s.call.cached)
         THEN ~s.wrote
         ELSE /\ s.wrote
              /\ s.path = target
              /\ s.content = s.call.content
              /\ ~s.outcome.thrown
              /\ s.outcome.invalidated = s.outcome.ok
              /\ s.outcome.logged = ~s.outcome.ok
              /\ Len(last.saves) = 1
                   => disk[target] = IF s.outcome.ok THEN s.content
                                     ELSE last.diskBefore[target]

C21_Witness ==
  /\ last.act = "fire"
  /\ Len(last.saves) = 1
  /\ last.saves[1].wrote
  /\ ~last.saves[1].outcome.ok
  /\ last.saves[1].outcome.logged
  /\ disk = last.diskBefore

====
